---- MODULE Spec2Model ----
(***************************************************************************)
(* A model of vector_t<T> (include/vector.hpp): the three fields of every  *)
(* container, the heap of buffers handed out by std::allocator<T>, and the *)
(* lifetime events (constructor and destructor calls) that lt::observer_t  *)
(* counts in the test-suite.  Every public member function is one action.  *)
(*                                                                         *)
(* Slots are 0-indexed as in the source; slot i of a buffer is element     *)
(* i + 1 of its `slots` sequence.  A slot keeps two things: whether an     *)
(* object lives in it, and the bits it holds (for T = int the bits survive *)
(* the end of the object's lifetime, which is what the int tests read).    *)
(*                                                                         *)
(* The counters of `ev` count the calls the code makes, as the observer    *)
(* does, and ev.log lists them in the order they are made; `dbl`, `dead`   *)
(* and `wild` count the calls among them that the language leaves          *)
(* undefined: a construction over a live object, a destruction of no live  *)
(* object, an access outside every live buffer; `badsize` and `twice`      *)
(* count the releases with a wrong element count and the releases of a     *)
(* buffer that is no longer allocated.                                     *)
(* Such an access leaves the modelled heap alone, and the call either      *)
(* returns or ends the process (crashed).  A read of a member the          *)
(* constructor never initialised is a choice over 0 .. MaxN.               *)
(***************************************************************************)
EXTENDS Integers, Sequences, FiniteSets, TLC

\* ---------------------------------------------------------------- bounds
MaxN == 2          \* sizes and capacities the callers pass
MaxOps == 4        \* public calls in one run of Spec
MaxK == 17         \* emplace_back calls in one run of SpecEmplace
MaxOpsAlloc == 3   \* public calls in one run of SpecAlloc

\* ------------------------------------------------------ program constants
NullPtr == 0               \* nullptr
InitialCapacity == 16      \* 1 << 4
DefaultValue == 0          \* T() for T = int
Raw == -1                  \* bits of storage no constructor has written

Containers == {"a", "b"}
Values == {1, 2}

VARIABLES
  vec,      \* vec[c]: the container c: alive, _data, _size, _capacity
  heap,     \* heap[b]: the live buffer b: n slots, each [live, val]
  ev,       \* lifetime events of the last public call
  last,     \* the last public call and the container's fields before it
  pushed,   \* pushed[c]: the values emplaced, one argument each, on c since
            \* its default construction (Void after any other call)
  steps,    \* public calls so far
  crashed   \* the process was ended inside a call that left every buffer

vars == <<vec, heap, ev, last, pushed, steps, crashed>>

Void == <<Raw>>

\* ------------------------------------------------------------- the heap
NoEvents ==
  [cdef |-> 0, ccopy |-> 0, cmove |-> 0, cargs |-> 0, dtor |-> 0,
   acopy |-> 0, amove |-> 0, alloc |-> 0, dealloc |-> 0, delete |-> 0,
   dbl |-> 0, dead |-> 0, wild |-> 0, badsize |-> 0, twice |-> 0, log |-> <<>>]

NoVector == [alive |-> FALSE, data |-> NullPtr, size |-> 0, capacity |-> 0]

FreshSlot == [live |-> FALSE, val |-> Raw]

\* slot i of buffer b exists
InBuf(h, b, i) == b # NullPtr /\ b \in DOMAIN h /\ i >= 0 /\ i < h[b].n

\* *(b + i) read as a value
ReadAt(h, b, i) == IF InBuf(h, b, i) THEN h[b].slots[i + 1].val ELSE Raw

IsLive(h, b, i) == InBuf(h, b, i) /\ h[b].slots[i + 1].live

\* the address the next allocation returns
NewId(h) == CHOOSE b \in 1 .. (Cardinality(DOMAIN h) + 1) : b \notin DOMAIN h

\* A machine state s threads the heap, the events and *this through a call:
\* s.heap, s.ev, s.v.  s.fail is the allocation request of the call that the
\* allocator refuses (0: none), s.thrown says that std::bad_alloc is on its
\* way to the caller: nothing in vector.hpp catches it, so every function
\* returns at once with the state it had at the throw.

\* _allocator.allocate(n): raw storage for exactly n elements, or a throw
Allocate(s, n) ==
  IF s.fail = s.ev.alloc + 1 THEN [s EXCEPT !.thrown = TRUE]
  ELSE [s EXCEPT !.heap = (NewId(s.heap) :> [n |-> n, slots |-> [i \in 1 .. n |-> FreshSlot]])
                          @@ s.heap,
                 !.ev.alloc = @ + 1]

\* _allocator.deallocate(p, n)
Deallocate(s, p, n) ==
  IF p = NullPtr THEN s
  ELSE IF p \notin DOMAIN s.heap
       THEN [s EXCEPT !.ev.dealloc = @ + 1, !.ev.wild = @ + 1, !.ev.twice = @ + 1]
  ELSE [s EXCEPT !.heap = [b \in DOMAIN s.heap \ {p} |-> s.heap[b]],
                 !.ev.dealloc = @ + 1,
                 !.ev.badsize = @ + (IF n = s.heap[p].n THEN 0 ELSE 1)]

\* one call of the constructor or destructor `kind` on slot i: the counter
\* of the kind goes up and the call joins the log of the calls, in order
Bump(e, kind, i) == [e EXCEPT ![kind] = @ + 1, !.log = Append(@, <<kind, i>>)]

\* std::construct_at(b + i, ...): one constructor call of the given kind
\* ("cdef", "ccopy", "cmove", "cargs") leaving value v in the slot
ConstructAt(s, b, i, kind, v) ==
  IF InBuf(s.heap, b, i)
  THEN [s EXCEPT !.heap[b].slots[i + 1] = [live |-> TRUE, val |-> v],
                 !.ev = [Bump(@, kind, i) EXCEPT
                           !.dbl = @ + (IF s.heap[b].slots[i + 1].live THEN 1 ELSE 0)]]
  ELSE [s EXCEPT !.ev = [Bump(@, kind, i) EXCEPT !.wild = @ + 1]]

\* std::destroy_at(b + i): one destructor call
DestroyAt(s, b, i) ==
  IF InBuf(s.heap, b, i)
  THEN [s EXCEPT !.heap[b].slots[i + 1].live = FALSE,
                 !.ev = [Bump(@, "dtor", i) EXCEPT
                           !.dead = @ + (IF s.heap[b].slots[i + 1].live THEN 0 ELSE 1)]]
  ELSE [s EXCEPT !.ev = [Bump(@, "dtor", i) EXCEPT !.dead = @ + 1, !.wild = @ + 1]]

\* The loops below run one construct_at or destroy_at call per index, in
\* ascending order; their iterations touch distinct slots, so each loop is
\* written as its total effect on the buffer, on the counters and on the log.
\* the buffer b of heap h with the slots of R rewritten by F
SetSlots(h, b, R, F) ==
  [x \in DOMAIN h |->
     IF x = b
     THEN [n |-> h[b].n,
           slots |-> [j \in 1 .. h[b].n |-> IF j - 1 \in R THEN F[j - 1] ELSE h[b].slots[j]]]
     ELSE h[x]]

\* destroy(b + from, b + to): for (; first != last; ++first) destroy_at(first)
destroy(s, b, from, to) ==
  LET R == from .. to - 1
      in == {i \in R : InBuf(s.heap, b, i)}
      live == {i \in in : s.heap[b].slots[i + 1].live}
  IN [s EXCEPT
        !.heap = IF in = {} THEN @
                 ELSE SetSlots(@, b, in, [i \in in |-> [@[b].slots[i + 1] EXCEPT !.live = FALSE]]),
        !.ev = [@ EXCEPT !.dtor = @ + Cardinality(R),
                         !.dead = @ + Cardinality(R \ live),
                         !.wild = @ + Cardinality(R \ in),
                         !.log = @ \o [k \in 1 .. Cardinality(R) |-> <<"dtor", from + k - 1>>]]]

\* for (i = from; i < from + Len(vals); ++i) construct_at(b + i, ...): one
\* constructor call of the given kind per index, leaving vals in the slots
ConstructRange(s, b, from, vals, kind) ==
  LET R == from .. from + Len(vals) - 1
      in == {i \in R : InBuf(s.heap, b, i)}
      live == {i \in in : s.heap[b].slots[i + 1].live}
  IN [s EXCEPT
        !.heap = IF in = {} THEN @
                 ELSE SetSlots(@, b, in, [i \in in |-> [live |-> TRUE, val |-> vals[i - from + 1]]]),
        !.ev = [@ EXCEPT ![kind] = @ + Cardinality(R),
                         !.dbl = @ + Cardinality(live),
                         !.wild = @ + Cardinality(R \ in),
                         !.log = @ \o [k \in 1 .. Len(vals) |-> <<kind, from + k - 1>>]]]

\* the values *(src + from) .. *(src + to - 1), and the reads among them that
\* fall outside every live buffer
ReadRange(h, src, from, to) == [k \in 1 .. to - from |-> ReadAt(h, src, from + k - 1)]

WildReads(h, src, from, to) == Cardinality({i \in from .. to - 1 : ~InBuf(h, src, i)})

\* for (i = from; i < to; ++i) construct_at(dst + i, std::move(*(src + i)))
MoveConstructRange(s, src, dst, from, to) ==
  ConstructRange([s EXCEPT !.ev.wild = @ + WildReads(s.heap, src, from, to)],
                 dst, from, ReadRange(s.heap, src, from, to), "cmove")

\* for (i = from; i < to; ++i) construct_at(b + i)
DefaultConstructRange(s, b, from, to) ==
  ConstructRange(s, b, from, [k \in 1 .. to - from |-> DefaultValue], "cdef")

\* for (i = 0; i < other.size(); ++i) construct_at(_data + i, *(other._data + i))
CopyConstructRange(s, src, dst, from, to) ==
  ConstructRange([s EXCEPT !.ev.wild = @ + WildReads(s.heap, src, from, to)],
                 dst, from, ReadRange(s.heap, src, from, to), "ccopy")

\* delete _data: the destructor of *_data, then operator delete
DeleteExpr(s, p) ==
  IF p = NullPtr THEN s
  ELSE LET d == DestroyAt(s, p, 0)
       IN [d EXCEPT !.heap = [b \in DOMAIN d.heap \ {p} |-> d.heap[b]],
                    !.ev.delete = @ + 1,
                    !.ev.twice = @ + (IF p \in DOMAIN s.heap THEN 0 ELSE 1)]

\* ------------------------------------------------------ member functions
\* The statements of a function run in sequence, each on the state the one
\* before it reached: Only({G(y) : y \in {F(x)}}) is F, then G.
Only(S) == CHOOSE r \in S : TRUE

\* reserve as it would be with the relocation forgotten: the new buffer
\* replaces the old one and the elements stay behind
reserveNoRelocation(s, new_capacity) ==
  LET buffer == NewId(s.heap)
      s0 == Allocate(s, new_capacity)
      s1 == IF s0.v.data # NullPtr /\ s0.v.size > 0
            THEN Deallocate(destroy(s0, s0.v.data, 0, s0.v.size), s0.v.data, s0.v.size)
            ELSE s0
  IN IF s0.thrown THEN s0
     ELSE [s1 EXCEPT !.v.capacity = new_capacity, !.v.data = buffer]

\* reserve as it would be with _capacity written before the allocation
reserveCapacityFirst(s, new_capacity) ==
  LET buffer == NewId(s.heap)
      s0 == Allocate([s EXCEPT !.v.capacity = new_capacity], new_capacity)
      s1 == IF s0.v.data # NullPtr /\ s0.v.size > 0
            THEN Deallocate(
                   destroy(MoveConstructRange(s0, s0.v.data, buffer, 0, s0.v.size),
                           s0.v.data, 0, s0.v.size),
                   s0.v.data, s0.v.size)
            ELSE s0
  IN IF s0.thrown THEN s0 ELSE [s1 EXCEPT !.v.data = buffer]

\* reserve as it would be if it relocated the whole old buffer, _capacity
\* slots, whenever there is one
reserveWholeBuffer(s, new_capacity) ==
  LET buffer == NewId(s.heap)
      s0 == Allocate(s, new_capacity)
      s1 == IF s0.v.data # NullPtr
            THEN Deallocate(
                   destroy(MoveConstructRange(s0, s0.v.data, buffer, 0, s0.v.capacity),
                           s0.v.data, 0, s0.v.capacity),
                   s0.v.data, s0.v.capacity)
            ELSE s0
  IN IF s0.thrown THEN s0
     ELSE [s1 EXCEPT !.v.capacity = new_capacity, !.v.data = buffer]

\* reserve as it would be with the old elements destroyed before the moves
reserveDestroyFirst(s, new_capacity) ==
  LET buffer == NewId(s.heap)
      s0 == Allocate(s, new_capacity)
      s1 == IF s0.v.data # NullPtr /\ s0.v.size > 0
            THEN Deallocate(
                   MoveConstructRange(destroy(s0, s0.v.data, 0, s0.v.size),
                                      s0.v.data, buffer, 0, s0.v.size),
                   s0.v.data, s0.v.size)
            ELSE s0
  IN IF s0.thrown THEN s0
     ELSE [s1 EXCEPT !.v.capacity = new_capacity, !.v.data = buffer]

\* void reserve(std::size_t new_capacity)
reserve(s, new_capacity) ==
  LET buffer == NewId(s.heap)
      s0 == Allocate(s, new_capacity)
      s1 == IF s0.v.data # NullPtr /\ s0.v.size > 0
            THEN Deallocate(
                   destroy(MoveConstructRange(s0, s0.v.data, buffer, 0, s0.v.size),
                           s0.v.data, 0, s0.v.size),
                   s0.v.data, s0.v.size)
            ELSE s0
  IN IF s0.thrown THEN s0
     ELSE [s1 EXCEPT !.v.capacity = new_capacity, !.v.data = buffer]

\* void resize(std::size_t new_size), the branch taken when _size == 0
ResizeEmpty(s, new_size) ==
  LET buffer == NewId(s.heap)
      s0 == Allocate(s, new_size)
      s1 == DefaultConstructRange(s0, buffer, 0, new_size)
  IN IF s0.thrown THEN s0
     ELSE [s1 EXCEPT !.v.data = buffer, !.v.capacity = new_size, !.v.size = new_size]

\* the growing branch as it would be without destroy(_data, _data + _size)
ResizeGrowNoDestroy(s, new_size) ==
  LET buffer == NewId(s.heap)
      s0 == Allocate(s, new_size)
      s1 == MoveConstructRange(s0, s0.v.data, buffer, 0, s0.v.size)
      s3 == Deallocate(s1, s1.v.data, s1.v.size)
      s4 == DefaultConstructRange(s3, buffer, s3.v.size, new_size)
  IN IF s0.thrown THEN s0
     ELSE [s4 EXCEPT !.v.size = new_size, !.v.capacity = new_size, !.v.data = buffer]

\* void resize(std::size_t new_size), the branch new_size > _size
ResizeGrow(s, new_size) ==
  LET buffer == NewId(s.heap)
      s0 == Allocate(s, new_size)
      s1 == MoveConstructRange(s0, s0.v.data, buffer, 0, s0.v.size)
      s2 == destroy(s1, s1.v.data, 0, s1.v.size)
      s3 == Deallocate(s2, s2.v.data, s2.v.size)
      s4 == DefaultConstructRange(s3, buffer, s3.v.size, new_size)
  IN IF s0.thrown THEN s0
     ELSE [s4 EXCEPT !.v.size = new_size, !.v.capacity = new_size, !.v.data = buffer]

\* void resize(std::size_t new_size), the branch new_size < _size
ResizeShrink(s, new_size) ==
  LET s1 == destroy(s, s.v.data, 0, s.v.size)
  IN [s1 EXCEPT !.v.capacity = new_size, !.v.size = new_size]

\* resize as it would be without `if (_size == new_size) return;`
resizeNoEarlyReturn(s, new_size) ==
  LET s1 == IF s.v.size = 0 THEN ResizeEmpty(s, new_size) ELSE s
      s2 == IF ~s1.thrown /\ s1.v.size > 0 /\ new_size > s1.v.size
            THEN ResizeGrow(s1, new_size) ELSE s1
      s3 == IF ~s2.thrown /\ s2.v.size > 0 /\ new_size < s2.v.size
            THEN ResizeShrink(s2, new_size) ELSE s2
  IN s3

\* void resize(std::size_t new_size)
resize(s, new_size) ==
  IF s.v.size = new_size THEN s
  ELSE LET s1 == IF s.v.size = 0 THEN ResizeEmpty(s, new_size) ELSE s
           s2 == IF ~s1.thrown /\ s1.v.size > 0 /\ new_size > s1.v.size
                 THEN ResizeGrow(s1, new_size) ELSE s1
           s3 == IF ~s2.thrown /\ s2.v.size > 0 /\ new_size < s2.v.size
                 THEN ResizeShrink(s2, new_size) ELSE s2
       IN s3

\* ((std::construct_at(_data + _size, std::get<p>(t))), ...): the fold makes
\* one construct_at call per argument, each with that argument alone
RECURSIVE ConstructEach(_, _, _)
ConstructEach(s, args, p) ==
  IF p > Len(args) THEN s
  ELSE ConstructEach(ConstructAt(s, s.v.data, s.v.size, "cargs", args[p]), args, p + 1)

\* the element construction of emplace_back for sizeof...(args) arguments
ConstructNew(s, args) ==
  IF Len(args) = 0 THEN ConstructAt(s, s.v.data, s.v.size, "cdef", DefaultValue)
  ELSE ConstructEach(s, args, 1)

\* emplace_back as it would be with a full buffer grown by one slot
emplace_backGrowByOne(s, args) ==
  LET Initial(x) ==
        IF x.v.capacity = 0
        THEN Only({IF r.thrown THEN r
                   ELSE ConstructAt(r, r.v.data, r.v.size, "cdef", DefaultValue) :
                   r \in {reserve(x, InitialCapacity)}})
        ELSE x
      Spare(x) == IF ~x.thrown /\ x.v.size < x.v.capacity THEN ConstructNew(x, args) ELSE x
      Full(x) ==
        IF ~x.thrown /\ x.v.size = x.v.capacity /\ x.v.capacity > 0
        THEN Only({IF r.thrown THEN r ELSE ConstructNew(r, args) :
                   r \in {reserve(x, x.v.capacity + 1)}})
        ELSE x
      Count(x) == IF x.thrown THEN x ELSE [x EXCEPT !.v.size = @ + 1]
  IN Only({Count(z) : z \in {Full(y) : y \in {Spare(x) : x \in {Initial(s)}}}})

\* template<typename... Args> void emplace_back(Args &&...args).  The tuple t
\* holds copies of the arguments (values here), which are no elements.
emplace_back(s, args) ==
  LET Initial(x) ==
        IF x.v.capacity = 0
        THEN Only({IF r.thrown THEN r
                   ELSE ConstructAt(r, r.v.data, r.v.size, "cdef", DefaultValue) :
                   r \in {reserve(x, InitialCapacity)}})
        ELSE x
      Spare(x) == IF ~x.thrown /\ x.v.size < x.v.capacity THEN ConstructNew(x, args) ELSE x
      Full(x) ==
        IF ~x.thrown /\ x.v.size = x.v.capacity /\ x.v.capacity > 0
        THEN Only({IF r.thrown THEN r ELSE ConstructNew(r, args) :
                   r \in {reserve(x, x.v.capacity * 2)}})
        ELSE x
      Count(x) == IF x.thrown THEN x ELSE [x EXCEPT !.v.size = @ + 1]
  IN Only({Count(z) : z \in {Full(y) : y \in {Spare(x) : x \in {Initial(s)}}}})

\* the copy as it would be with the loop running to other's capacity
CopyFromCapacity(s, other, self) ==
  LET s1 == reserve(s, other.size)
      src == IF self THEN s1.v.data ELSE other.data
  IN IF s1.thrown THEN s1 ELSE CopyConstructRange(s1, src, s1.v.data, 0, other.capacity)

\* vector_t(vector_t const & other) and operator=(vector_t const & other):
\* reserve(other.size()), then the copy-construction loop.  In a = a (self)
\* other is *this, so other._data is read after reserve replaced it.
CopyFrom(s, other, self) ==
  LET s1 == reserve(s, other.size)
      src == IF self THEN s1.v.data ELSE other.data
  IN IF s1.thrown THEN s1 ELSE CopyConstructRange(s1, src, s1.v.data, 0, other.size)

\* ~vector_t()
Destructor(s) ==
  LET s1 == destroy(s, s.v.data, 0, s.v.size)
  IN IF s1.v.data # NullPtr THEN Deallocate(s1, s1.v.data, s1.v.capacity) ELSE s1

\* --------------------------------------------------------------- actions
\* the machine at a call on c during which the allocator refuses its
\* request number f (0: it grants every request)
Call(c, f) == [heap |-> heap, ev |-> NoEvents, v |-> vec[c], fail |-> f, thrown |-> FALSE]

Enter(c) == Call(c, 0)

\* the elements a caller reads through operator[] for i < size()
ElemsOf(h, v) == [i \in 1 .. v.size |-> ReadAt(h, v.data, i - 1)]

Elems(c) == ElemsOf(heap, vec[c])

\* the number of objects alive in the buffer at b
LiveCount(h, b) ==
  IF b \in DOMAIN h THEN Cardinality({i \in 0 .. h[b].n - 1 : IsLive(h, b, i)}) ELSE 0

NoSource == "-"

\* the value of `pushed` after a call on c that is no emplace_back(v)
Forget(c) == [pushed EXCEPT ![c] = Void]

\* The call `op` on c, with argument x and source container d (or NoSource),
\* took the machine from Enter(c) to s and left d's fields as dv and the
\* emplaced values as np; last.threw says that it ended by a throw and
\* last.kept that it left the heap as it was.  A call that accessed storage
\* outside every live buffer may instead have ended the process before it
\* returned.  (r is s, evaluated once.)
Leave2(c, op, x, s, d, dv, np) ==
  \E r \in {s} :
    \/ /\ vec' = [k \in Containers |-> IF k = c THEN r.v ELSE IF k = d THEN dv ELSE vec[k]]
       /\ heap' = r.heap
       /\ ev' = r.ev
       /\ last' = [op |-> op, c |-> c, arg |-> x, pre |-> vec[c], elems |-> Elems(c),
                   live |-> LiveCount(heap, vec[c].data),
                   threw |-> r.thrown, kept |-> (r.heap = heap),
                   src |-> d,
                   spre |-> IF d = NoSource THEN NoVector ELSE vec[d],
                   selems |-> IF d = NoSource THEN <<>> ELSE Elems(d)]
       /\ pushed' = np
       /\ steps' = steps + 1
       /\ crashed' = FALSE
    \/ /\ r.ev.wild > 0
       /\ crashed' = TRUE
       /\ UNCHANGED <<vec, heap, ev, last, pushed, steps>>

Leave(c, op, x, s, np) == Leave2(c, op, x, s, NoSource, NoVector, np)

Fresh == [alive |-> TRUE, data |-> NullPtr, size |-> 0, capacity |-> 0]

\* vector_t() noexcept
DefaultConstruct(c) ==
  /\ ~vec[c].alive
  /\ Leave(c, "vector_t()", <<>>, [Enter(c) EXCEPT !.v = Fresh],
           [pushed EXCEPT ![c] = <<>>])

\* vector_t(std::size_t size)
SizedConstruct(c, n) ==
  /\ ~vec[c].alive
  /\ Leave(c, "vector_t(n)", <<n>>, resize([Enter(c) EXCEPT !.v = Fresh], n), Forget(c))

\* reserve as the callers may call it: new_capacity >= size() is the
\* documented precondition (the code itself does not test it)
Reserve(c, n) ==
  /\ vec[c].alive
  /\ n >= vec[c].size
  /\ Leave(c, "reserve", <<n>>, reserve(Enter(c), n), Forget(c))

Resize(c, n) ==
  /\ vec[c].alive
  /\ Leave(c, "resize", <<n>>, resize(Enter(c), n), Forget(c))

EmplaceBack(c, args) ==
  /\ vec[c].alive
  /\ Leave(c, "emplace_back", args, emplace_back(Enter(c), args),
           [pushed EXCEPT ![c] =
              IF Len(args) = 1 /\ @ # Void THEN Append(@, args[1]) ELSE Void])

Destroy(c) ==
  /\ vec[c].alive
  /\ Leave(c, "~vector_t", <<>>, [Destructor(Enter(c)) EXCEPT !.v = NoVector], Forget(c))

\* vector_t(vector_t const & other): the delegated vector_t() leaves _data
\* null, so `if (_data) delete _data` does nothing
CopyConstruct(c, d) ==
  /\ ~vec[c].alive /\ vec[d].alive /\ c # d
  /\ Leave2(c, "vector_t(const&)", <<>>,
            CopyFrom([Enter(c) EXCEPT !.v = Fresh], vec[d], FALSE), d, vec[d], Forget(c))

\* vector_t &operator=(vector_t const & other), a = a included
CopyAssign(c, d) ==
  /\ vec[c].alive /\ vec[d].alive
  /\ LET s == CopyFrom(Enter(c), vec[d], c = d)
     IN Leave2(c, "operator=(const&)", <<>>, s, d, IF c = d THEN s.v ELSE vec[d], Forget(c))

\* vector_t(vector_t && other) noexcept : _data(other._data).  _size and
\* _capacity have no initialiser: they hold whatever the storage held (gs, gc)
MoveConstruct(c, d, gs, gc) ==
  /\ ~vec[c].alive /\ vec[d].alive /\ c # d
  /\ Leave2(c, "vector_t(&&)", <<>>,
            [Enter(c) EXCEPT !.v = [alive |-> TRUE, data |-> vec[d].data,
                                    size |-> gs, capacity |-> gc]],
            d, [vec[d] EXCEPT !.data = NullPtr],
            [pushed EXCEPT ![c] = Void, ![d] = Void])

\* vector_t &operator=(vector_t && other), a = std::move(a) included: there
\* other._data = nullptr writes this->_data
MoveAssign(c, d) ==
  /\ vec[c].alive /\ vec[d].alive
  /\ LET s1 == DeleteExpr(Enter(c), vec[c].data)
         s2 == [s1 EXCEPT !.v.data = IF c = d THEN NullPtr ELSE vec[d].data]
     IN Leave2(c, "operator=(&&)", <<>>, s2,
               d, IF c = d THEN s2.v ELSE [vec[d] EXCEPT !.data = NullPtr],
               [pushed EXCEPT ![c] = Void, ![d] = Void])

Init ==
  /\ vec = [c \in Containers |-> NoVector]
  /\ heap = <<>>
  /\ ev = NoEvents
  /\ last = [op |-> "none", c |-> "a", arg |-> <<>>, pre |-> NoVector, elems |-> <<>>,
             live |-> 0, threw |-> FALSE, kept |-> TRUE,
             src |-> NoSource, spre |-> NoVector, selems |-> <<>>]
  /\ pushed = [c \in Containers |-> Void]
  /\ steps = 0
  /\ crashed = FALSE

\* the argument lists of the emplace_back calls: none, one value, two values
ArgLists == {<<>>} \cup {<<x>> : x \in Values} \cup {<<1, 2>>}

\* the run goes on: the process lives and the bound on calls is not reached
Ready == steps < MaxOps /\ ~crashed

Next ==
  \/ \E c \in Containers : Ready /\ DefaultConstruct(c)
  \/ \E c \in Containers : \E n \in 0 .. MaxN : Ready /\ SizedConstruct(c, n)
  \/ \E c \in Containers : \E n \in 0 .. MaxN : Ready /\ Reserve(c, n)
  \/ \E c \in Containers : \E n \in 0 .. MaxN : Ready /\ Resize(c, n)
  \/ \E c \in Containers : \E args \in ArgLists : Ready /\ EmplaceBack(c, args)
  \/ \E c \in Containers : Ready /\ Destroy(c)
  \/ \E c, d \in Containers : Ready /\ CopyConstruct(c, d)
  \/ \E c, d \in Containers : Ready /\ CopyAssign(c, d)
  \/ \E c, d \in Containers : \E gs, gc \in 0 .. MaxN : Ready /\ MoveConstruct(c, d, gs, gc)
  \/ \E c, d \in Containers : Ready /\ MoveAssign(c, d)

Spec == Init /\ [][Next]_vars

\* runs of emplace_back(v) alone on one default-constructed container
NextEmplace ==
  \/ DefaultConstruct("a")
  \/ \E x \in Values : vec["a"].size < MaxK /\ ~crashed /\ EmplaceBack("a", <<x>>)

SpecEmplace == Init /\ [][NextEmplace]_vars

\* ---------------------------------------------------- allocation failure
\* The calls below are the public calls during which the allocator refuses
\* request number f: std::allocator<T>::allocate throws std::bad_alloc.

\* a constructor whose body throws after the delegated vector_t() completed:
\* the destructor runs and the object never exists
Unwind(s) == [Destructor(s) EXCEPT !.v = NoVector]

SizedConstructThrows(c, n, f) ==
  /\ ~vec[c].alive
  /\ LET s == resize([Call(c, f) EXCEPT !.v = Fresh], n)
     IN s.thrown /\ Leave(c, "vector_t(n)", <<n>>, Unwind(s), Forget(c))

ReserveThrows(c, n, f) ==
  /\ vec[c].alive
  /\ n >= vec[c].size
  /\ LET s == reserve(Call(c, f), n)
     IN s.thrown /\ Leave(c, "reserve", <<n>>, s, Forget(c))

ResizeThrows(c, n, f) ==
  /\ vec[c].alive
  /\ LET s == resize(Call(c, f), n)
     IN s.thrown /\ Leave(c, "resize", <<n>>, s, Forget(c))

EmplaceBackThrows(c, args, f) ==
  /\ vec[c].alive
  /\ LET s == emplace_back(Call(c, f), args)
     IN s.thrown /\ Leave(c, "emplace_back", args, s, Forget(c))

CopyConstructThrows(c, d, f) ==
  /\ ~vec[c].alive /\ vec[d].alive /\ c # d
  /\ LET s == CopyFrom([Call(c, f) EXCEPT !.v = Fresh], vec[d], FALSE)
     IN s.thrown /\ Leave2(c, "vector_t(const&)", <<>>, Unwind(s), d, vec[d], Forget(c))

CopyAssignThrows(c, d, f) ==
  /\ vec[c].alive /\ vec[d].alive
  /\ LET s == CopyFrom(Call(c, f), vec[d], c = d)
     IN s.thrown /\ Leave2(c, "operator=(const&)", <<>>, s,
                           d, IF c = d THEN s.v ELSE vec[d], Forget(c))

\* the requests of one call that may be the refused one (no call makes more
\* than two)
Requests == 1 .. 2

ReadyAlloc == steps < MaxOpsAlloc /\ ~crashed

NextAlloc ==
  \/ \E c \in Containers : ReadyAlloc /\ DefaultConstruct(c)
  \/ \E c \in Containers : \E n \in 0 .. MaxN : ReadyAlloc /\ SizedConstruct(c, n)
  \/ \E c \in Containers : \E n \in 0 .. MaxN : ReadyAlloc /\ Reserve(c, n)
  \/ \E c \in Containers : \E n \in 0 .. MaxN : ReadyAlloc /\ Resize(c, n)
  \/ \E c \in Containers : \E args \in ArgLists : ReadyAlloc /\ EmplaceBack(c, args)
  \/ \E c \in Containers : ReadyAlloc /\ Destroy(c)
  \/ \E c, d \in Containers : ReadyAlloc /\ CopyConstruct(c, d)
  \/ \E c, d \in Containers : ReadyAlloc /\ CopyAssign(c, d)
  \/ \E c, d \in Containers : \E gs, gc \in 0 .. MaxN : ReadyAlloc /\ MoveConstruct(c, d, gs, gc)
  \/ \E c, d \in Containers : ReadyAlloc /\ MoveAssign(c, d)
  \/ \E c \in Containers : \E n \in 0 .. MaxN : \E f \in Requests :
       ReadyAlloc /\ SizedConstructThrows(c, n, f)
  \/ \E c \in Containers : \E n \in 0 .. MaxN : \E f \in Requests :
       ReadyAlloc /\ ReserveThrows(c, n, f)
  \/ \E c \in Containers : \E n \in 0 .. MaxN : \E f \in Requests :
       ReadyAlloc /\ ResizeThrows(c, n, f)
  \/ \E c \in Containers : \E args \in ArgLists : \E f \in Requests :
       ReadyAlloc /\ EmplaceBackThrows(c, args, f)
  \/ \E c, d \in Containers : \E f \in Requests : ReadyAlloc /\ CopyConstructThrows(c, d, f)
  \/ \E c, d \in Containers : \E f \in Requests : ReadyAlloc /\ CopyAssignThrows(c, d, f)

SpecAlloc == Init /\ [][NextAlloc]_vars

\* ----------------------------------------------------------------- claims
Alive == {c \in Containers : vec[c].alive}

\* the slots of c's buffer that hold a live object
LiveSlots(c) ==
  IF vec[c].data \in DOMAIN heap
  THEN {i \in 0 .. heap[vec[c].data].n - 1 : IsLive(heap, vec[c].data, i)}
  ELSE {}

Constructions == ev.cdef + ev.ccopy + ev.cmove + ev.cargs
Assignments == ev.acopy + ev.amove

\* C1 (I3): size <= capacity for every container, after any sequence of
\* public calls.
C1_SizeWithinCapacity == \A c \in Alive : vec[c].size <= vec[c].capacity

\* C2 (I2): exactly the slots [0, size) of every container's buffer hold live
\* elements, and size never exceeds the number of live elements of the buffer.
C2_LiveRangeIsSize ==
  \A c \in Alive :
    /\ \A i \in 0 .. vec[c].size - 1 : i \in LiveSlots(c)
    /\ \A i \in vec[c].size .. vec[c].capacity - 1 : i \notin LiveSlots(c)
    /\ vec[c].size <= Cardinality(LiveSlots(c))

\* C3 (I4): no call constructs into a slot that holds a live element, and no
\* call destroys a slot that holds none.
C3_NoDoubleLifetime == ev.dbl = 0 /\ ev.dead = 0

\* C4: k calls emplace_back(v_1) .. emplace_back(v_k) on a default-constructed
\* container leave size() == k and element i equal to v_(i+1).
C4_EmplaceOrder ==
  \A c \in Alive :
    pushed[c] # Void => vec[c].size = Len(pushed[c]) /\ Elems(c) = pushed[c]

C4_Witness ==
  /\ vec["a"].alive /\ Len(pushed["a"]) = InitialCapacity + 1
  /\ pushed["a"] # Void
  /\ vec["a"].capacity = 2 * InitialCapacity
  /\ \E i, j \in 1 .. InitialCapacity : pushed["a"][i] # pushed["a"][j]

\* C5: every emplace_back call constructs exactly one element, in slot `size`,
\* and adds 1 to size: one default construction for no argument, one forwarded
\* construction for n >= 1 arguments, and nothing else but relocation.
C5_EmplaceOneConstruction ==
  last.op = "emplace_back" =>
    /\ vec[last.c].size = last.pre.size + 1
    /\ IsLive(heap, vec[last.c].data, last.pre.size)
    /\ ev.cdef = (IF Len(last.arg) = 0 THEN 1 ELSE 0)
    /\ ev.cargs = (IF Len(last.arg) = 0 THEN 0 ELSE 1)
    /\ ev.ccopy = 0 /\ Assignments = 0
    /\ ev.cmove = ev.dtor

\* C6: resize(s) on a container of size S > s makes S - s destructions, no
\* construction, no assignment and no reallocation, and leaves
\* size == capacity == s with the slots [0, s) live.
C6_ShrinkDestroysTail ==
  (last.op = "resize" /\ last.arg[1] < last.pre.size) =>
    /\ ev.dtor = last.pre.size - last.arg[1]
    /\ Constructions = 0 /\ Assignments = 0
    /\ ev.alloc = 0 /\ ev.dealloc = 0 /\ vec[last.c].data = last.pre.data
    /\ vec[last.c].size = last.arg[1] /\ vec[last.c].capacity = last.arg[1]
    /\ \A i \in 0 .. last.arg[1] - 1 : IsLive(heap, vec[last.c].data, i)

\* the last call was resize(n) or vector_t(n) with n above the size before it
IsGrowingResize ==
  /\ last.op \in {"resize", "vector_t(n)"}
  /\ last.arg[1] > last.pre.size

\* C7: resize(S + k), k > 0, on a container of size S (the sized constructor
\* is the case S == 0) makes k default constructions, S move constructions
\* and S destructions, no copy construction and no assignment, and leaves
\* size == capacity == S + k.
C7_GrowCounts ==
  IsGrowingResize =>
    /\ ev.cdef = last.arg[1] - last.pre.size
    /\ ev.cmove = last.pre.size /\ ev.dtor = last.pre.size
    /\ ev.ccopy = 0 /\ ev.cargs = 0 /\ Assignments = 0
    /\ vec[last.c].size = last.arg[1] /\ vec[last.c].capacity = last.arg[1]

C7_Witness ==
  /\ IsGrowingResize /\ last.op = "resize"
  /\ last.pre.size > 0 /\ ev.cmove > 0 /\ ev.cdef > 0
  /\ ev.wild = 0 /\ ev.dead = 0

\* C8: reserve(c), c >= size(), on a container of size S > 0 makes S move
\* constructions and S destructions, no other construction, no assignment,
\* keeps size == S and sets capacity to c.
C8_ReserveCounts ==
  (last.op = "reserve" /\ last.pre.size > 0) =>
    /\ ev.cmove = last.pre.size /\ ev.dtor = last.pre.size
    /\ ev.cdef = 0 /\ ev.ccopy = 0 /\ ev.cargs = 0 /\ Assignments = 0
    /\ vec[last.c].size = last.pre.size
    /\ vec[last.c].capacity = last.arg[1]

\* the last call was a copy construction or a copy assignment
IsCopy == last.op \in {"vector_t(const&)", "operator=(const&)"}

\* C9: copy construction and copy assignment from a source of size S leave
\* the destination with size() == S and element i equal to the source's, and
\* the source's size and elements as they were.
C9_CopyResult ==
  IsCopy =>
    /\ vec[last.c].size = last.spre.size
    /\ \A i \in 1 .. last.spre.size :
         ReadAt(heap, vec[last.c].data, i - 1) = last.selems[i]
    /\ vec[last.src].size = last.spre.size
    /\ Elems(last.src) = last.selems

\* C10: copy construction and copy assignment from a source of size S make
\* S copy constructions and no assignment, whatever the destination was;
\* into a default-constructed destination they make no other construction
\* and no destruction.
C10_CopyCounts ==
  IsCopy =>
    /\ ev.ccopy = last.spre.size
    /\ Assignments = 0
    /\ (last.pre.data = NullPtr /\ last.pre.size = 0 /\ last.pre.capacity = 0)
         => (ev.cdef = 0 /\ ev.cmove = 0 /\ ev.cargs = 0 /\ ev.dtor = 0)

C10_Witness ==
  /\ last.op = "operator=(const&)"
  /\ last.spre.size > 1 /\ last.pre.size > 0 /\ last.pre.data # NullPtr
  /\ ev.ccopy = last.spre.size /\ ev.cmove > 0

\* the last call was a move construction or a move assignment from another
\* container
IsMove ==
  /\ last.op \in {"vector_t(&&)", "operator=(&&)"}
  /\ last.src # last.c

\* C11: a move construction or move assignment from a source holding buffer
\* B with size S and capacity C leaves the destination holding B with size S
\* and capacity C, and the source holding no buffer with size 0 and capacity 0.
C11_MoveTransfers ==
  IsMove =>
    /\ vec[last.c].data = last.spre.data
    /\ vec[last.c].size = last.spre.size
    /\ vec[last.c].capacity = last.spre.capacity
    /\ vec[last.src].data = NullPtr
    /\ vec[last.src].size = 0
    /\ vec[last.src].capacity = 0

\* C12: a move construction from a source of any size, and a move assignment
\* into a destination that holds no live element (capacity 0 or spare
\* reserved capacity), make no construction, no assignment and no destruction.
C12_MoveNoEvents ==
  (IsMove /\ (last.op = "vector_t(&&)" \/ (last.pre.size = 0 /\ last.live = 0))) =>
    /\ Constructions = 0
    /\ Assignments = 0
    /\ ev.dtor = 0

\* the step from a state just after m = std::move(b) (or m(std::move(b))) to
\* the state after the copy assignment b = m
CopyBackStep ==
  /\ IsMove
  /\ last'.op = "operator=(const&)"
  /\ last'.c = last.src /\ last'.src = last.c

\* C13: after b_moved = std::move(b) or b_moved(std::move(b)) from a b of
\* size S, the copy assignment b = b_moved makes exactly S copy constructions
\* and no other lifetime event, and leaves both containers with S elements
\* equal to b's original values (so that destroying both makes 2 * S
\* destructions, one per element held).
C13_MovedFromReusable ==
  [][CopyBackStep =>
       LET b == last.src
           b_moved == last.c
           S == last.spre.size
           original == last.selems
       IN /\ ev'.ccopy = S
          /\ ev'.cdef = 0 /\ ev'.cmove = 0 /\ ev'.cargs = 0
          /\ ev'.acopy = 0 /\ ev'.amove = 0 /\ ev'.dtor = 0
          /\ vec'[b].size = S /\ vec'[b_moved].size = S
          /\ ElemsOf(heap', vec'[b]) = original
          /\ ElemsOf(heap', vec'[b_moved]) = original
          /\ LiveCount(heap', vec'[b].data) + LiveCount(heap', vec'[b_moved].data) = 2 * S]_vars

\* C14: destroying a container of size S makes exactly S destructions, one
\* per live element, whatever its capacity; it makes none when S == 0, for a
\* container with reserved capacity and for a moved-from source (which holds
\* no buffer) alike.
C14_DestructorCounts ==
  last.op = "~vector_t" =>
    /\ ev.dtor = last.pre.size
    /\ ev.dead = 0
    /\ last.pre.data = NullPtr => ev.dtor = 0

\* C15: when the allocator fails inside reserve, resize, emplace_back, a copy
\* construction or a copy assignment, the failure reaches the caller and the
\* container's buffer, size, capacity and live elements are what they were
\* before the call (a container under construction never exists), with every
\* other buffer of the heap untouched and no lifetime event made.
C15_AllocationFailureNeutral ==
  last.threw =>
    /\ vec[last.c] = last.pre
    /\ Elems(last.c) = last.elems
    /\ LiveCount(heap, vec[last.c].data) = last.live
    /\ last.kept
    /\ last.src # NoSource => (vec[last.src] = last.spre /\ Elems(last.src) = last.selems)
    /\ Constructions = 0 /\ Assignments = 0 /\ ev.dtor = 0
    /\ ev.alloc = 0 /\ ev.dealloc = 0 /\ ev.delete = 0

C15_Witness ==
  /\ last.threw
  /\ last.op = "emplace_back"
  /\ last.pre.size > 0 /\ last.pre.size = last.pre.capacity
  /\ last.live = last.pre.size

\* C16 (I1): a container whose capacity is 0 holds no allocated buffer; in
\* particular after resize(0) on a non-empty container and after being moved
\* from.
C16_NoCapacityNoBuffer ==
  \A c \in Alive : vec[c].capacity = 0 => vec[c].data \notin DOMAIN heap

\* the smallest c * 2^j that is at least k
RECURSIVE SmallestDoubling(_, _)
SmallestDoubling(c, k) == IF c >= k THEN c ELSE SmallestDoubling(2 * c, k)

\* C17: emplace_back on a container of capacity 0 grows the capacity to 16;
\* on a full container (size == capacity > 0) it sets the capacity to exactly
\* twice the old one, through a new buffer; with spare capacity
\* (size < capacity) it leaves capacity and buffer alone.  Hence after k >= 1
\* emplace_back calls on a default-constructed container the capacity is the
\* smallest 16 * 2^j that is at least k.
C17_GrowthPolicy ==
  /\ (last.op = "emplace_back" /\ ~last.threw) =>
       /\ (last.pre.capacity = 0 /\ last.pre.size < InitialCapacity)
            => (vec[last.c].capacity = InitialCapacity /\ ev.alloc = 1)
       /\ (last.pre.size = last.pre.capacity /\ last.pre.capacity > 0)
            => /\ vec[last.c].capacity = 2 * last.pre.capacity
               /\ ev.alloc = 1
               /\ ev.cmove = ev.dtor
       /\ last.pre.size < last.pre.capacity
            => /\ vec[last.c].capacity = last.pre.capacity
               /\ vec[last.c].data = last.pre.data
               /\ ev.alloc = 0 /\ ev.dealloc = 0 /\ ev.cmove = 0 /\ ev.dtor = 0
  /\ \A c \in Alive :
       (pushed[c] # Void /\ Len(pushed[c]) >= 1)
         => vec[c].capacity = SmallestDoubling(InitialCapacity, Len(pushed[c]))

C17_Witness ==
  /\ last.op = "emplace_back"
  /\ last.pre.size = InitialCapacity /\ last.pre.capacity = InitialCapacity
  /\ vec["a"].capacity = 2 * InitialCapacity
  /\ ev.cmove = InitialCapacity /\ ev.dealloc = 1
  /\ Len(pushed["a"]) = InitialCapacity + 1

\* C18 as the claim has it: relocation proceeds element by element, the move
\* construction of destination[i] immediately followed by the destruction of
\* source[i], before destination[i + 1] is constructed.
C18_RelocationPerElement ==
  ev.cmove > 0 =>
    \A i \in 1 .. ev.cmove :
      /\ ev.log[2 * i - 1] = <<"cmove", i - 1>>
      /\ ev.log[2 * i] = <<"dtor", i - 1>>

\* C18, as the code has it: relocation of k elements makes the k move constructions of
\* destination[0] .. destination[k - 1] in ascending order first, and only
\* then the k destructions of source[0] .. source[k - 1] in ascending order.
C18_RelocationBatched ==
  ev.cmove > 0 =>
    /\ Len(ev.log) >= 2 * ev.cmove
    /\ \A i \in 1 .. ev.cmove :
         /\ ev.log[i] = <<"cmove", i - 1>>
         /\ ev.log[ev.cmove + i] = <<"dtor", i - 1>>

C18_Witness ==
  /\ last.op = "reserve" /\ ev.cmove >= 2 /\ ev.dtor = ev.cmove
  /\ ev.log[2] = <<"cmove", 1>> /\ ev.log[3] = <<"dtor", 0>>
  /\ ev.wild = 0 /\ ev.dead = 0

\* no constructor, assignment or destructor call was made
NoLifetimeEvent == Constructions = 0 /\ Assignments = 0 /\ ev.dtor = 0 /\ ev.log = <<>>

\* C19: reserve(c) on a container of size 0, whatever its capacity, makes no
\* construction, no assignment and no destruction (it only allocates), leaves
\* the size 0, and destroying a container of size 0 afterwards makes none
\* either.
C19_ReserveEmptyNoEvents ==
  /\ (last.op = "reserve" /\ last.pre.size = 0 /\ ~last.threw) =>
       /\ NoLifetimeEvent
       /\ ev.alloc = 1
       /\ vec[last.c].size = 0 /\ vec[last.c].capacity = last.arg[1]
  /\ (last.op = "~vector_t" /\ last.pre.size = 0) => NoLifetimeEvent

C19_Witness ==
  /\ last.op = "reserve" /\ last.pre.size = 0
  /\ last.pre.capacity > 0 /\ last.pre.data \in DOMAIN heap
  /\ last.arg[1] > 0 /\ vec[last.c].capacity = last.arg[1]

\* C20: resize(n) with n == size() changes nothing: no lifetime event, no
\* allocation, no deallocation, and buffer, size, capacity and every element
\* value as they were.
C20_ResizeSameSize ==
  (last.op = "resize" /\ last.arg[1] = last.pre.size) =>
    /\ ev = NoEvents
    /\ ~last.threw
    /\ vec[last.c] = last.pre
    /\ last.kept
    /\ Elems(last.c) = last.elems
    /\ LiveCount(heap, vec[last.c].data) = last.live

C20_Witness ==
  /\ last.op = "resize" /\ last.arg[1] = last.pre.size
  /\ last.pre.size > 0 /\ last.pre.data \in DOMAIN heap
  /\ last.live = last.pre.size

\* C21: once every container is destroyed, every buffer the allocator handed
\* out has been released exactly once: none is still allocated (leaked) and
\* no call released a buffer that was already released.
C21_ReleasedExactlyOnce ==
  /\ ev.twice = 0
  /\ Alive = {} => DOMAIN heap = {}

\* C22: every deallocation, in reserve, in a growing resize and in the
\* destructor, passes the element count with which that buffer was allocated,
\* after any sequence of calls.
C22_DeallocateCountMatches ==
  last.op \in {"reserve", "resize", "vector_t(n)", "emplace_back", "~vector_t",
               "vector_t(const&)", "operator=(const&)"}
    => ev.badsize = 0

\* C23: a copy assignment into a destination that holds D > 0 live elements
\* destroys those D elements before it copy-constructs the source's: no slot
\* is copy-constructed while it holds a live element, and none of the D old
\* elements stays live without being counted in size.
C23_CopyAssignDestroysFirst ==
  (/\ last.op = "operator=(const&)" /\ last.src # last.c /\ ~last.threw
   /\ last.live > 0 /\ last.live = last.pre.size)
    => /\ ev.dbl = 0
       /\ LiveCount(heap, vec[last.c].data) <= vec[last.c].size

\* the elements [0, n) of the container of the last call are alive and hold
\* the values they held before the call
Survive(n) ==
  \A i \in 1 .. n :
    /\ IsLive(heap, vec[last.c].data, i - 1)
    /\ ReadAt(heap, vec[last.c].data, i - 1) = last.elems[i]

\* C24: on a container that holds its size() elements, reserve(c) with
\* c >= size, a growing resize and emplace_back leave the elements at
\* [0, old size) with their values, in the same order, and resize(s) with
\* s < size leaves the elements at [0, s) with theirs.
C24_ValuesSurvive ==
  (/\ ~last.threw
   /\ last.live = last.pre.size /\ last.pre.size <= last.pre.capacity)
    => /\ last.op \in {"reserve", "emplace_back"} => Survive(last.pre.size)
       /\ (last.op = "resize" /\ last.arg[1] >= last.pre.size) => Survive(last.pre.size)
       /\ (last.op = "resize" /\ last.arg[1] < last.pre.size) => Survive(last.arg[1])
====
